---- MODULE Spec2Model ----
(***************************************************************************)
(* Model of the regression-verification core of pipeline_testing.py:       *)
(* compareCheckSums reconciles, per test, the table of file metrics of the *)
(* current run (<track>.stats) with the reference table (<track>.ref) and  *)
(* writes one verdict row per test to md5_compare.tsv.                     *)
(***************************************************************************)
EXTENDS Integers, Sequences, FiniteSets, TLC

\* ------------------------------------------------------------------------
\* Bounds of the model
\* ------------------------------------------------------------------------

\* largest number of lines of a file whose contents are modelled
MaxLines == 2

\* largest number of file names on the command line of cgat_clean
MaxNames == 2

\* largest number of rows in a table of file metrics
MaxFiles == 2

\* ------------------------------------------------------------------------
\* Data: file names, metric values, tables, configured suffix lists
\* ------------------------------------------------------------------------

\* pandas reads an empty cell as NaN; NaN is unequal to every value,
\* itself included
NaNMd5 == "NaN"
NaNLines == -1

\* file names (index of a table), as sequences of characters
Paths == { <<"a">>, <<"b", "a">>, <<"c">> }

\* rows of a table: the md5 and nlines columns of one file
Rows ==
  { [md5 |-> NaNMd5, nlines |-> NaNLines],
    [md5 |-> "X", nlines |-> 1],
    [md5 |-> "Y", nlines |-> 1],
    [md5 |-> "X", nlines |-> 2] }

\* rows of the reference: no metric, or the accepted checksum and count
RefRows ==
  { [md5 |-> NaNMd5, nlines |-> NaNLines],
    [md5 |-> "X", nlines |-> 1] }

\* the tables of at most n rows taken from R: file name -> row
TablesOf(R, n) ==
  UNION { [S -> R] : S \in { T \in SUBSET Paths : Cardinality(T) <= n } }

\* contents of <track>.stats and of <track>.ref
Tables == TablesOf(Rows, MaxFiles)

RefTables == TablesOf(RefRows, MaxFiles)

\* values of the options <track>_regex_exist, _regex_linecount, _regex_md5
\* after P.as_list: a list of fragments; <<>> when the option is not set
Policies == { <<>>, << <<"b">> >>, << <<"a">>, <<"b">> >> }

\* the options of one test
TestParams ==
  [ regex_exist : Policies, regex_linecount : Policies, regex_md5 : Policies ]

\* results of iotools.is_complete for the files matching <track>*.log
LogChoices == { <<>>, <<TRUE>>, <<FALSE, TRUE>> }

\* a suite of two tests, test_a and test_ab, in either order
SuiteOrders ==
  { << <<"a">>, <<"a", "b">> >>, << <<"a", "b">>, <<"a">> >> }

SuiteParams ==
  { [ regex_exist |-> <<>>, regex_linecount |-> <<>>,
      regex_md5 |-> << <<"a">>, <<"b">> >> ],
    [ regex_exist |-> << <<"b">> >>, regex_linecount |-> <<>>,
      regex_md5 |-> << <<"a">>, <<"b">> >> ] }

SuiteLogs == { <<TRUE>>, <<FALSE, TRUE>> }

SuiteTables ==
  { ( <<"a">> :> [md5 |-> "X", nlines |-> 1] ),
    ( <<"a">> :> [md5 |-> "Y", nlines |-> 1] ),
    ( <<"a">> :> [md5 |-> "X", nlines |-> 1]
        @@ <<"b", "a">> :> [md5 |-> "Y", nlines |-> 1] ) }

SuiteRefTables ==
  { ( <<"a">> :> [md5 |-> "X", nlines |-> 1] ),
    ( <<"a">> :> [md5 |-> "X", nlines |-> 1]
        @@ <<"b", "a">> :> [md5 |-> "X", nlines |-> 1] ) }

\* the files of the scenario of the specification: a.tsv.gz, b.bam and
\* c.bed.gz
PathTsv == << "a", ".", "t", "s", "v", ".", "g", "z" >>
PathBam == << "b", ".", "b", "a", "m" >>
PathBed == << "c", ".", "b", "e", "d", ".", "g", "z" >>

ScenarioPaths == { PathTsv, PathBam, PathBed }

\* the fragments .tsv.gz, .bam and .bed.gz of a suffix list
SuffixTsv == << ".", "t", "s", "v", ".", "g", "z" >>
SuffixBam == << ".", "b", "a", "m" >>
SuffixBed == << ".", "b", "e", "d", ".", "g", "z" >>

\* the checksum list covers the three suffixes, or .bed.gz is under the
\* existence list, under the line-count list, or under no list
ScenarioParams ==
  { [ regex_exist |-> <<>>, regex_linecount |-> <<>>,
      regex_md5 |-> << SuffixTsv, SuffixBam, SuffixBed >> ],
    [ regex_exist |-> << SuffixBed >>, regex_linecount |-> <<>>,
      regex_md5 |-> << SuffixTsv, SuffixBam >> ],
    [ regex_exist |-> <<>>, regex_linecount |-> << SuffixBed >>,
      regex_md5 |-> << SuffixTsv, SuffixBam >> ],
    [ regex_exist |-> <<>>, regex_linecount |-> <<>>,
      regex_md5 |-> << SuffixTsv, SuffixBam >> ] }

ScenarioLogs == { <<TRUE>>, <<FALSE>> }

\* the rows a file of the scenario may have in <track>.stats: checksums
\* X, Y, Z, W, or no metric (a file listed for its existence only)
ScenarioRows ==
  ( PathTsv :> { [md5 |-> "X", nlines |-> 1],
                 [md5 |-> NaNMd5, nlines |-> NaNLines] } )
  @@ ( PathBam :> { [md5 |-> "Y", nlines |-> 1],
                    [md5 |-> "Z", nlines |-> 1] } )
  @@ ( PathBed :> { [md5 |-> "W", nlines |-> 1],
                    [md5 |-> NaNMd5, nlines |-> NaNLines] } )

\* and in <track>.ref
ScenarioRefRows ==
  ( PathTsv :> { [md5 |-> "X", nlines |-> 1] } )
  @@ ( PathBam :> { [md5 |-> "Y", nlines |-> 1] } )
  @@ ( PathBed :> { [md5 |-> "W", nlines |-> 1] } )

\* the tables over the files of the scenario with rows taken from rows
ScenarioTablesOf(rows) ==
  UNION { { t \in [ S -> UNION { rows[x] : x \in S } ] :
              \A x \in S : t[x] \in rows[x] } :
          S \in SUBSET ScenarioPaths }

ScenarioTables == ScenarioTablesOf(ScenarioRows)

ScenarioRefTables == ScenarioTablesOf(ScenarioRefRows)

\* the files below <track>.dir, named by what follows "<track>.dir": /a,
\* /ba and /_a
CollectPaths == { << "/", "a" >>, << "/", "b", "a" >>, << "/", "_", "a" >> }

\* checksum and number of lines of a file below <track>.dir
CollectRows == { [md5 |-> "X", nlines |-> 1], [md5 |-> "Y", nlines |-> 2] }

\* the directory trees: file name -> its checksum and number of lines
CollectDirs == UNION { [ S -> CollectRows ] : S \in SUBSET CollectPaths }

\* the suffix lists of a test whose metrics are collected
CollectParams ==
  [ regex_exist : { <<>>, << << "b", "a" >> >> },
    regex_linecount : { <<>>, << << "a" >> >> },
    regex_md5 : { <<>>, << << "a" >> >> } ]

CollectLogs == { <<TRUE>> }

CollectRefTables ==
  { ( << "/", "a" >> :> [md5 |-> "X", nlines |-> 1] ),
    ( << "/", "a" >> :> [md5 |-> "X", nlines |-> 1]
        @@ << "/", "b", "a" >> :> [md5 |-> NaNMd5, nlines |-> NaNLines] ) }

\* a directory tree with reserved names: /a, /ab, /_a, /report/a and
\* /reporta
FindPaths ==
  { << "/", "a" >>, << "/", "a", "b" >>, << "/", "_", "a" >>,
    << "/", "r", "e", "p", "o", "r", "t", "/", "a" >>,
    << "/", "r", "e", "p", "o", "r", "t", "a" >> }

FindDirs ==
  UNION { [ S -> { [md5 |-> "X", nlines |-> 1] } ] : S \in SUBSET FindPaths }

\* suffix lists with the fragments a, ab and .b
FindParams ==
  [ regex_exist : { <<>>, << << "a" >> >> },
    regex_linecount : { <<>>, << << "a" >> >> },
    regex_md5 : { <<>>, << << "a", "b" >> >>, << << ".", "b" >> >> } ]

FindRefTables ==
  { ( << "/", "a" >> :> [md5 |-> "X", nlines |-> 1]
        @@ << "/", "a", "b" >> :> [md5 |-> "X", nlines |-> 1] ),
    ( << "/", "a", "b" >> :> [md5 |-> "X", nlines |-> NaNLines] ) }

\* lines of a file: a line that begins with the comment marker "#", or a
\* line of data
Lines ==
  { [comment |-> TRUE, text |-> "c"], [comment |-> TRUE, text |-> "d"],
    [comment |-> FALSE, text |-> "x"], [comment |-> FALSE, text |-> "y"] }

\* contents of a file of at most MaxLines lines
Contents == UNION { [ 1..n -> Lines ] : n \in 0..MaxLines }

\* the lines that do not begin with "#"
RECURSIVE StripComments(_)
StripComments(content) ==
  IF content = <<>> THEN <<>>
  ELSE LET l == content[Len(content)]
           front == StripComments(SubSeq(content, 1, Len(content) - 1))
       IN IF l.comment THEN front ELSE Append(front, l)

\* a checksum: equal for equal sequences of lines only
RECURSIVE Digest(_)
Digest(content) ==
  IF content = <<>> THEN ""
  ELSE LET l == content[Len(content)]
       IN Digest(SubSeq(content, 1, Len(content) - 1))
            \o (IF l.comment THEN "#" ELSE "") \o l.text \o ";"

\* cgat_file_apply.sh <file> md5sum: the checksum of the lines that are
\* not comments
Md5sum(content) == Digest(StripComments(content))

\* cgat_file_apply.sh <file> wc -l
WcL(content) == Len(content)

\* a file below <track>.dir with its contents and what the metrics give
ContentRow(content) ==
  [ content |-> content, md5 |-> Md5sum(content), nlines |-> WcL(content) ]

\* the test directory holds no file, or the file /a
ContentDirs ==
  { [ x \in {} |-> ContentRow(<<>>) ] }
    \cup { ( << "/", "a" >> :> ContentRow(c) ) : c \in Contents }

\* the reference was made from an earlier /a
ContentRefTables == { ( << "/", "a" >> :> ContentRow(c) ) : c \in Contents }

ContentParams ==
  [ regex_exist : { <<>> },
    regex_linecount : { <<>>, << << "a" >> >> },
    regex_md5 : { << << "a" >> >> } ]

\* the key of the option prerequisites
PrereqKey == << "prerequisites" >>

\* the options of a test of the whole pipeline: the option target is not
\* set, or names one target, or two
PipelineParams ==
  { [ regex_exist |-> <<>>, regex_linecount |-> <<>>,
      regex_md5 |-> << << "a" >> >> ] }
    \cup [ regex_exist : { <<>> }, regex_linecount : { <<>> },
           regex_md5 : { << << "a" >> >> },
           target : { << "x" >>, << "x", "y" >> } ]

\* the option prerequisites: not set, or naming test_b, or naming a package
\* test_q without section
PrereqChoices ==
  { <<>>, ( PrereqKey :> << << "b" >> >> ), ( PrereqKey :> << << "q" >> >> ) }

\* configurations with the sections test_a, or test_a and test_b
PipelineConfigs ==
  UNION { { f @@ g : f \in [ T -> PipelineParams ], g \in PrereqChoices } :
          T \in { { << "a" >> }, { << "a" >>, << "b" >> } } }

\* the statistics of the tests that were run, in sorted order
PipelineOrders == { << << "a" >> >>, << << "a" >>, << "b" >> >> }

PipelineDirs == { ( << "/", "a" >> :> [md5 |-> "X", nlines |-> 1] ) }

\* the files cgat_clean may be given, by number
CleanNames == 1..MaxNames

\* command lines: lists of different existing files (as a shell pattern
\* gives them)
CommandLines ==
  { s \in UNION { [ 1..n -> CleanNames ] : n \in 0..MaxNames } :
      \A i, j \in 1..Len(s) : i # j => s[i] # s[j] }

\* a file on disk: it is present, it ends in the job-finished marker or
\* not, and <file>.log is absent, or ends in the marker or not
DiskFiles ==
  [ present : { TRUE }, complete : BOOLEAN,
    log : { "absent", "incomplete", "complete" } ]

\* the tests of one invocation (names of the .stats files without suffix);
\* a test name is the sequence of characters that follows "test_"
Infiles == << <<"a">> >>

\* header line of md5_compare.tsv
Header ==
  << "track", "status", "job_finished", "nfiles", "nref", "missing",
     "extra", "different", "different_md5", "different_lines", "same",
     "same_md5", "same_lines", "same_exist", "files_missing", "files_extra",
     "files_different_md5", "files_different_lines" >>

\* ------------------------------------------------------------------------
\* Pure parts of compareCheckSums
\* ------------------------------------------------------------------------

\* fragment f occurs in file name x at offset k; a "." of the fragment is
\* the wildcard of regular expressions
OccursAt(f, x, k) ==
  /\ k + Len(f) <= Len(x)
  /\ \A j \in 1..Len(f) : f[j] = "." \/ x[k + j] = f[j]

\* variant: match in place of search, a fragment has to start the name
ReMatch(fragments, x) ==
  \E i \in 1..Len(fragments) : OccursAt(fragments[i], x, 0)

\* re.compile("|".join(fragments)).search(x): some fragment occurs
\* somewhere in x
ReSearch(fragments, x) ==
  \E i \in 1..Len(fragments) :
    \E k \in 0..Len(x) : OccursAt(fragments[i], x, k)

\* elementwise != of two pandas series
SeriesNe(x, y, nan) == x = nan \/ y = nan \/ x # y

\* elementwise == of two pandas series
SeriesEq(x, y, nan) == x # nan /\ y # nan /\ x = y

\* job_finished: conjunction over the log files of the test
RECURSIVE JobFinished(_)
JobFinished(logs) ==
  IF logs = <<>> THEN TRUE
  ELSE JobFinished(SubSeq(logs, 1, Len(logs) - 1)) /\ logs[Len(logs)]

\* s is a prefix of t
IsPrefix(s, t) == Len(s) <= Len(t) /\ SubSeq(t, 1, Len(s)) = s

\* the logs of the other tests that glob.glob(track + "*.log") returns as
\* well: those of the tests whose name starts with track
RECURSIVE LogsOfOthers(_, _, _)
LogsOfOthers(trk, files, tests) ==
  IF tests = <<>> THEN <<>>
  ELSE LET t == Head(tests)
           rest == LogsOfOthers(trk, files, Tail(tests))
       IN IF t # trk /\ IsPrefix(trk, t) THEN files[t].logs \o rest
          ELSE rest

\* is_complete of the files that glob.glob(track + "*.log") returns
Glob(trk, own, files, tests) == own.logs \o LogsOfOthers(trk, files, tests)

SharedFiles(cmp, ref) == (DOMAIN cmp) \cap (DOMAIN ref)

\* variant: the difference taken the wrong way round
MissingSwapped(cmp, ref) == (DOMAIN cmp) \ (DOMAIN ref)

Missing(cmp, ref) == (DOMAIN ref) \ (DOMAIN cmp)

\* variant: only the files with a checksum are counted
ExtraWithChecksum(cmp, ref) ==
  { x \in (DOMAIN cmp) \ (DOMAIN ref) : cmp[x].md5 # NaNMd5 }

Extra(cmp, ref) == (DOMAIN cmp) \ (DOMAIN ref)

\* variant: the test of the pattern negated
SameExistNegated(shared, rexist) ==
  IF rexist # <<>> THEN { x \in shared : ~ReSearch(rexist, x) } ELSE {}

\* files for which only existence is checked
SameExist(shared, rexist) ==
  IF rexist # <<>> THEN { x \in shared : ReSearch(rexist, x) } ELSE {}

\* variant: the existence-only files stay in the working set
DifferentAfterExistKept(shared, rexist) == shared

\* working set after the existence step
DifferentAfterExist(shared, rexist) ==
  IF rexist # <<>> THEN { x \in shared : ~ReSearch(rexist, x) } ELSE shared

\* files of the working set for which the number of lines is checked
CheckLines(different, rlinecount) ==
  IF rlinecount # <<>> THEN { x \in different : ReSearch(rlinecount, x) }
  ELSE {}

\* variant: plain inequality, under which two empty cells are equal
DifferentLinesPlain(cmp, ref, check_lines) ==
  { x \in check_lines : cmp[x].nlines # ref[x].nlines }

DifferentLines(cmp, ref, check_lines) ==
  { x \in check_lines : SeriesNe(cmp[x].nlines, ref[x].nlines, NaNLines) }

SameLines(cmp, ref, check_lines) ==
  { x \in check_lines : SeriesEq(cmp[x].nlines, ref[x].nlines, NaNLines) }

\* variant: the line-counted files stay in the working set
DifferentAfterLinesKept(different, check_lines) == different

\* working set after the line count step
DifferentAfterLines(different, check_lines) == different \ check_lines

\* variant: the whole remainder is checked, whatever the pattern
CheckMd5Remainder(different, rmd5) ==
  IF rmd5 # <<>> THEN different ELSE {}

\* files of the remaining working set for which the checksum is checked
CheckMd5(different, rmd5) ==
  IF rmd5 # <<>> THEN { x \in different : ReSearch(rmd5, x) } ELSE {}

\* variant: the nlines column compared instead of the md5 column
DifferentMd5ByLines(cmp, ref, check_md5) ==
  { x \in check_md5 : SeriesNe(cmp[x].nlines, ref[x].nlines, NaNLines) }

DifferentMd5(cmp, ref, check_md5) ==
  { x \in check_md5 : SeriesNe(cmp[x].md5, ref[x].md5, NaNMd5) }

\* variant: plain equality, under which two empty cells are equal
SameMd5Plain(cmp, ref, check_md5) ==
  { x \in check_md5 : cmp[x].md5 = ref[x].md5 }

SameMd5(cmp, ref, check_md5) ==
  { x \in check_md5 : SeriesEq(cmp[x].md5, ref[x].md5, NaNMd5) }

\* variant: the extra files left out of the sum
StatusIgnoresExtra(finished, miss, ext, diff_md5, diff_lines) ==
  IF finished /\ (Cardinality(miss)
                  + Cardinality(diff_md5) + Cardinality(diff_lines) = 0)
  THEN "OK" ELSE "FAIL"

Status(finished, miss, ext, diff_md5, diff_lines) ==
  IF finished /\ (Cardinality(miss) + Cardinality(ext)
                  + Cardinality(diff_md5) + Cardinality(diff_lines) = 0)
  THEN "OK" ELSE "FAIL"

\* the body of the loop from reading the tables to the status
Reconcile(cmp, ref, rexist, rlinecount, rmd5, finished) ==
  LET shared == SharedFiles(cmp, ref)
      miss == Missing(cmp, ref)
      ext == Extra(cmp, ref)
      s_exist == SameExist(shared, rexist)
      d1 == DifferentAfterExist(shared, rexist)
      c_lines == CheckLines(d1, rlinecount)
      d_lines == DifferentLines(cmp, ref, c_lines)
      s_lines == SameLines(cmp, ref, c_lines)
      d2 == DifferentAfterLines(d1, c_lines)
      c_md5 == CheckMd5(d2, rmd5)
      d_md5 == DifferentMd5(cmp, ref, c_md5)
      s_md5 == SameMd5(cmp, ref, c_md5)
  IN [ shared_files |-> shared, missing |-> miss, extra |-> ext,
       same_exist |-> s_exist, different |-> d2,
       different_lines |-> d_lines, same_lines |-> s_lines,
       different_md5 |-> d_md5, same_md5 |-> s_md5,
       status |-> Status(finished, miss, ext, d_md5, d_lines) ]

\* variant: the files of same_exist left out of the total of same files
VerdictRowSameWithoutExist(trk, finished, cmp, ref, r) ==
  << trk, r.status, finished,
     Cardinality(DOMAIN cmp), Cardinality(DOMAIN ref),
     Cardinality(r.missing), Cardinality(r.extra),
     Cardinality(r.different_md5) + Cardinality(r.different_lines),
     Cardinality(r.different_md5), Cardinality(r.different_lines),
     Cardinality(r.same_md5) + Cardinality(r.same_lines),
     Cardinality(r.same_md5), Cardinality(r.same_lines),
     Cardinality(r.same_exist),
     r.missing, r.extra, r.different_md5, r.different_lines >>

\* the line written for one test
VerdictRow(trk, finished, cmp, ref, r) ==
  << trk, r.status, finished,
     Cardinality(DOMAIN cmp), Cardinality(DOMAIN ref),
     Cardinality(r.missing), Cardinality(r.extra),
     Cardinality(r.different_md5) + Cardinality(r.different_lines),
     Cardinality(r.different_md5), Cardinality(r.different_lines),
     Cardinality(r.same_md5) + Cardinality(r.same_lines)
       + Cardinality(r.same_exist),
     Cardinality(r.same_md5), Cardinality(r.same_lines),
     Cardinality(r.same_exist),
     r.missing, r.extra, r.different_md5, r.different_lines >>

\* ------------------------------------------------------------------------
\* State
\* ------------------------------------------------------------------------

VARIABLES
  PARAMS,           \* configuration: test -> its options
  fs,               \* working directory: test -> its files
  pc,               \* "collect": the tasks before compareCheckSums;
                    \* "loop": in the for loop; "raised": ValueError;
                    \* "closed": loop left and outf closed
  dirs,             \* test -> the files below <track>.dir
  made,             \* test -> the files of metrics that exist
  metric_files,     \* test -> contents of <track>.md5, .lines, .exist
  statements,       \* the find statements handed to P.run
  run_jobs,         \* package -> the jobs of run_tests: for each job the
                    \* targets whose make statement P.run was given
  infiles,          \* the tests of the invocation
  done,             \* number of tests the loop has finished
  outf,             \* lines of md5_compare.tsv
  track,            \* locals of the last iteration
  logfiles,
  job_finished,
  regex_exist,
  regex_linecount,
  regex_md5,
  cmp_data,
  ref_data,
  result,           \* the sets and the status of the last iteration
  filenames,        \* cgat_clean: the file names of the command line
  disk,             \* cgat_clean: file name -> the file and its log
  c,                \* cgat_clean: the counters
  args              \* cgat_clean: the options

vars ==
  << PARAMS, fs, pc, dirs, made, metric_files, statements, run_jobs,
     infiles, done,
     outf, track, logfiles, job_finished, regex_exist, regex_linecount,
     regex_md5, cmp_data, ref_data, result, filenames, disk, c, args >>

\* the state of the tasks that collect the metrics
collector == << dirs, made, metric_files, statements, run_jobs >>

\* the state of cgat_clean
cleaner == << filenames, disk, c, args >>

\* the counters before the first file
NoCounts == [ checked |-> 0, complete |-> 0, incomplete |-> 0, deleted |-> 0 ]

\* cgat_clean is not run
CleanIdle ==
  /\ filenames = <<>>
  /\ disk = <<>>
  /\ c = NoCounts
  /\ args = [ dry_run |-> FALSE ]

NoTable == [ x \in {} |-> [md5 |-> NaNMd5, nlines |-> NaNLines] ]

\* the files a test has once its package is unpacked (tgz), its pipeline
\* run (log) and its report built (report)
RunFiles == { "tgz", "log", "report" }

\* suffixes of the files of metrics of a test
MetricFiles == { "md5", "lines", "exist" }

\* no file of metrics has a row
NoMetrics == [ md5 |-> NoTable, lines |-> NoTable, exist |-> NoTable ]

TestsOf(tests) == { tests[i] : i \in 1..Len(tests) }

\* The files of one test: the is_complete results of its own log files,
\* <track>.stats and <track>.ref (has_ref: the file exists). at = "any": the
\* files are made outside of the model and their contents are fixed when
\* they are read; at = "file": the contents are these.
Undetermined ==
  [ at |-> "any", has_ref |-> FALSE, logs |-> <<>>, stats |-> NoTable,
    ref |-> NoTable ]

\* the contents a test with reference file may have
FilesWithRef(L, T, R) ==
  [ at : {"file"}, has_ref : {TRUE}, logs : L, stats : T, ref : R ]

\* the contents a test without reference file may have
FilesWithoutRef(L, T) ==
  [ at : {"file"}, has_ref : {FALSE}, logs : L, stats : T, ref : {NoTable} ]

\* what an iteration finds for a test whose files are made outside of the
\* model; without reference file <track>.stats is not read
AnyFiles ==
  FilesWithRef(LogChoices, Tables, RefTables)
    \cup FilesWithoutRef(LogChoices, {NoTable})

\* what the iteration for trk finds on disk
FilesRead(trk) == IF fs[trk].at = "any" THEN AnyFiles ELSE { fs[trk] }

\* after opening the output file and writing the header; orders: the
\* possible lists of tests, params: the possible options of a test,
\* files: the possible files of a test
InitWith(orders, params, files) ==
  /\ infiles \in orders
  /\ PARAMS \in [ TestsOf(infiles) -> params ]
  /\ fs \in [ TestsOf(infiles) -> files ]
  /\ dirs = [ t \in TestsOf(infiles) |-> NoTable ]
  /\ made = [ t \in TestsOf(infiles) |->
               RunFiles \cup MetricFiles \cup { "stats" } ]
  /\ run_jobs = [ t \in TestsOf(infiles) |-> <<>> ]
  /\ metric_files = [ t \in TestsOf(infiles) |-> NoMetrics ]
  /\ statements = {}
  /\ pc = "loop"
  /\ done = 0
  /\ outf = << Header >>
  /\ track = <<>>
  /\ logfiles = <<>>
  /\ job_finished = TRUE
  /\ regex_exist = <<>>
  /\ regex_linecount = <<>>
  /\ regex_md5 = <<>>
  /\ cmp_data = NoTable
  /\ ref_data = NoTable
  /\ result = Reconcile(NoTable, NoTable, <<>>, <<>>, <<>>, TRUE)
  /\ CleanIdle

Init == InitWith({ Infiles }, TestParams, { Undetermined })

\* variant: the output file opened anew in every iteration
CompareTestReopens ==
  /\ pc = "loop"
  /\ done < Len(infiles)
  /\ \E f \in FilesRead(infiles[done + 1]) :
       LET trk == infiles[done + 1]
           logs == Glob(trk, f, fs, infiles)
           re == PARAMS[trk].regex_exist
           rl == PARAMS[trk].regex_linecount
           rm == PARAMS[trk].regex_md5
           finished == JobFinished(logs)
           r == Reconcile(f.stats, f.ref, re, rl, rm, finished)
       IN /\ f.has_ref
          /\ fs' = [fs EXCEPT ![trk] = f]
          /\ track' = trk
          /\ logfiles' = logs
          /\ job_finished' = finished
          /\ regex_exist' = re
          /\ regex_linecount' = rl
          /\ regex_md5' = rm
          /\ cmp_data' = f.stats
          /\ ref_data' = f.ref
          /\ result' = r
          /\ outf' = << Header, VerdictRow(trk, finished, f.stats, f.ref, r) >>
  /\ done' = done + 1
  /\ pc' = IF done + 1 = Len(infiles) THEN "closed" ELSE "loop"
  /\ UNCHANGED << PARAMS, infiles >>
  /\ UNCHANGED << collector, cleaner >>

\* one iteration of the loop for a test whose reference file exists; after
\* the last test the loop is left and outf is closed
CompareTest ==
  /\ pc = "loop"
  /\ done < Len(infiles)
  /\ \E f \in FilesRead(infiles[done + 1]) :
       LET trk == infiles[done + 1]
           logs == Glob(trk, f, fs, infiles)
           re == PARAMS[trk].regex_exist
           rl == PARAMS[trk].regex_linecount
           rm == PARAMS[trk].regex_md5
           finished == JobFinished(logs)
           r == Reconcile(f.stats, f.ref, re, rl, rm, finished)
       IN /\ f.has_ref
          /\ fs' = [fs EXCEPT ![trk] = f]
          /\ track' = trk
          /\ logfiles' = logs
          /\ job_finished' = finished
          /\ regex_exist' = re
          /\ regex_linecount' = rl
          /\ regex_md5' = rm
          /\ cmp_data' = f.stats
          /\ ref_data' = f.ref
          /\ result' = r
          /\ outf' = Append(outf, VerdictRow(trk, finished, f.stats, f.ref, r))
  /\ done' = done + 1
  /\ pc' = IF done + 1 = Len(infiles) THEN "closed" ELSE "loop"
  /\ UNCHANGED << PARAMS, infiles >>
  /\ UNCHANGED << collector, cleaner >>

\* variant: a test without reference file passes
NoReferencePasses ==
  /\ pc = "loop"
  /\ done < Len(infiles)
  /\ \E f \in FilesRead(infiles[done + 1]) :
       LET trk == infiles[done + 1]
           logs == Glob(trk, f, fs, infiles)
           r == Reconcile(NoTable, NoTable, <<>>, <<>>, <<>>, TRUE)
       IN /\ ~f.has_ref
          /\ fs' = [fs EXCEPT ![trk] = f]
          /\ track' = trk
          /\ logfiles' = logs
          /\ job_finished' = JobFinished(logs)
          /\ regex_exist' = PARAMS[trk].regex_exist
          /\ regex_linecount' = PARAMS[trk].regex_linecount
          /\ regex_md5' = PARAMS[trk].regex_md5
          /\ outf' = Append(outf, VerdictRow(trk, JobFinished(logs), f.stats,
                                             NoTable, r))
  /\ done' = done + 1
  /\ pc' = IF done + 1 = Len(infiles) THEN "closed" ELSE "loop"
  /\ UNCHANGED << PARAMS, infiles, cmp_data, ref_data, result >>
  /\ UNCHANGED << collector, cleaner >>

\* one iteration of the loop for a test without reference file: ValueError
NoReference ==
  /\ pc = "loop"
  /\ done < Len(infiles)
  /\ \E f \in FilesRead(infiles[done + 1]) :
       LET trk == infiles[done + 1]
           logs == Glob(trk, f, fs, infiles)
       IN /\ ~f.has_ref
          /\ fs' = [fs EXCEPT ![trk] = f]
          /\ track' = trk
          /\ logfiles' = logs
          /\ job_finished' = JobFinished(logs)
          /\ regex_exist' = PARAMS[trk].regex_exist
          /\ regex_linecount' = PARAMS[trk].regex_linecount
          /\ regex_md5' = PARAMS[trk].regex_md5
  /\ pc' = "raised"
  /\ UNCHANGED << PARAMS, infiles, done, outf, cmp_data, ref_data, result >>
  /\ UNCHANGED << collector, cleaner >>

Next == CompareTest \/ NoReference

Spec == Init /\ [][Next]_vars

\* compareCheckSums on a suite of two tests whose files are on disk
SuiteInit ==
  InitWith(SuiteOrders, SuiteParams,
           FilesWithRef(SuiteLogs, SuiteTables, SuiteRefTables)
             \cup FilesWithoutRef(SuiteLogs, SuiteTables))

SpecSuite == SuiteInit /\ [][Next]_vars

\* compareCheckSums on one test whose tables are over the files of the
\* scenario
ScenarioInit ==
  InitWith({ Infiles }, ScenarioParams,
           FilesWithRef(ScenarioLogs, ScenarioTables, ScenarioRefTables)
             \cup FilesWithoutRef(ScenarioLogs, ScenarioTables))

SpecScenario == ScenarioInit /\ [][Next]_vars

\* ------------------------------------------------------------------------
\* The tasks that collect the metrics of a test
\* ------------------------------------------------------------------------

\* the argument suffixes of compute_file_metrics: None or a list
None == [ none |-> TRUE, items |-> <<>> ]

ListOf(items) == [ none |-> FALSE, items |-> items ]

\* find -regex .*<suffix>$: the whole name matches, so the name ends with
\* the suffix
EndsWith(suffix, x) ==
  Len(suffix) <= Len(x) /\ OccursAt(suffix, x, Len(x) - Len(suffix))

\* find -not -regex '.*\/report.*' -not -regex '.*\/_.*'
Excluded(x) ==
  ReSearch(<< << "/", "r", "e", "p", "o", "r", "t" >>, << "/", "_" >> >>, x)

\* variant: the find statement lists every file it does not exclude
FindFilesWithoutSuffix(dir, suffixes) ==
  { x \in DOMAIN dir : ~Excluded(x) }

\* the files that the find statement lists
FindFiles(dir, suffixes) ==
  { x \in DOMAIN dir :
      ~Excluded(x) /\ \E i \in 1..Len(suffixes) : EndsWith(suffixes[i], x) }

\* cgat_file_apply.sh <file> <metric>: the row of the file of metrics
FileApply(row, metric) ==
  IF metric = "md5sum" THEN [md5 |-> row.md5, nlines |-> NaNLines]
  ELSE IF metric = "wc -l" THEN [md5 |-> NaNMd5, nlines |-> row.nlines]
  ELSE [md5 |-> NaNMd5, nlines |-> NaNLines]

\* variant: no early return, the find statement is run for every list
compute_file_metricsAlwaysFinds(trk, dir, metric, suffixes) ==
  [ outfile |-> [ x \in FindFiles(dir, suffixes.items) |->
                    FileApply(dir[x], metric) ],
    statements |-> { [track |-> trk, metric |-> metric] } ]

\* compute_file_metrics: the contents of outfile and the statements run
compute_file_metrics(trk, dir, metric, suffixes) ==
  IF suffixes.none \/ Len(suffixes.items) = 0
  THEN [ outfile |-> NoTable, statements |-> {} ]
  ELSE [ outfile |-> [ x \in FindFiles(dir, suffixes.items) |->
                         FileApply(dir[x], metric) ],
         statements |-> { [track |-> trk, metric |-> metric] } ]

\* merge_testing_output.sh: the union of the three files by file name
MergeTestingOutput(m) ==
  [ x \in (DOMAIN m.md5) \cup (DOMAIN m.lines) \cup (DOMAIN m.exist) |->
      [ md5 |-> IF x \in DOMAIN m.md5 THEN m.md5[x].md5 ELSE NaNMd5,
        nlines |-> IF x \in DOMAIN m.lines THEN m.lines[x].nlines
                   ELSE NaNLines ] ]

\* before the first task: no file of metrics exists
CollectInit ==
  /\ infiles = Infiles
  /\ PARAMS \in [ TestsOf(infiles) -> CollectParams ]
  /\ fs \in [ TestsOf(infiles) ->
                FilesWithRef(CollectLogs, { NoTable }, CollectRefTables)
                  \cup FilesWithoutRef(CollectLogs, { NoTable }) ]
  /\ dirs \in [ TestsOf(infiles) -> CollectDirs ]
  /\ made = [ t \in TestsOf(infiles) |-> RunFiles ]
  /\ run_jobs = [ t \in TestsOf(infiles) |-> <<>> ]
  /\ metric_files = [ t \in TestsOf(infiles) |-> NoMetrics ]
  /\ statements = {}
  /\ pc = "collect"
  /\ done = 0
  /\ outf = <<>>
  /\ track = <<>>
  /\ logfiles = <<>>
  /\ job_finished = TRUE
  /\ regex_exist = <<>>
  /\ regex_linecount = <<>>
  /\ regex_md5 = <<>>
  /\ cmp_data = NoTable
  /\ ref_data = NoTable
  /\ result = Reconcile(NoTable, NoTable, <<>>, <<>>, <<>>, TRUE)
  /\ CleanIdle

\* before the first task, for the tests drawn from params, files and trees
CollectInitWith(params, files, trees) ==
  /\ infiles = Infiles
  /\ PARAMS \in [ TestsOf(infiles) -> params ]
  /\ fs \in [ TestsOf(infiles) -> files ]
  /\ dirs \in [ TestsOf(infiles) -> trees ]
  /\ made = [ t \in TestsOf(infiles) |-> RunFiles ]
  /\ run_jobs = [ t \in TestsOf(infiles) |-> <<>> ]
  /\ metric_files = [ t \in TestsOf(infiles) |-> NoMetrics ]
  /\ statements = {}
  /\ pc = "collect"
  /\ done = 0
  /\ outf = <<>>
  /\ track = <<>>
  /\ logfiles = <<>>
  /\ job_finished = TRUE
  /\ regex_exist = <<>>
  /\ regex_linecount = <<>>
  /\ regex_md5 = <<>>
  /\ cmp_data = NoTable
  /\ ref_data = NoTable
  /\ result = Reconcile(NoTable, NoTable, <<>>, <<>>, <<>>, TRUE)
  /\ CleanIdle

\* the tasks run on a directory tree with reserved names
FindInit ==
  CollectInitWith(FindParams,
                  FilesWithRef(CollectLogs, { NoTable }, FindRefTables)
                    \cup FilesWithoutRef(CollectLogs, { NoTable }),
                  FindDirs)

\* P.as_list(PARAMS.get("prerequisites", ""))
Prerequisites ==
  IF PrereqKey \in DOMAIN PARAMS THEN PARAMS[PrereqKey] ELSE <<>>

\* TESTS: the tests that have a section in the configuration
TESTS == (DOMAIN PARAMS) \ { PrereqKey }

\* variant: every test gets a job
RunTestsAll == TESTS

\* the tests that get a job of run_tests
RunTests == { x \in TESTS : x \notin TestsOf(Prerequisites) }

\* the packages that are downloaded
Packages == TESTS \cup TestsOf(Prerequisites)

\* P.as_list(PARAMS.get("<track>_target", "full"))
pipeline_targets(t) ==
  IF "target" \in DOMAIN PARAMS[t] THEN PARAMS[t].target ELSE << "full" >>

\* run_test: the targets whose make statement is given to P.run; with a
\* number of targets other than one the name statement is not bound when
\* P.run is called and the call raises
run_test(targets) ==
  IF Len(targets) = 1 THEN [ ran |-> << targets[1] >>, raised |-> FALSE ]
  ELSE [ ran |-> <<>>, raised |-> TRUE ]

\* before the first task of the pipeline: nothing is downloaded
PipelineInit ==
  /\ PARAMS \in PipelineConfigs
  /\ infiles \in { o \in PipelineOrders : TestsOf(o) = RunTests }
  /\ fs \in [ TestsOf(infiles) ->
                FilesWithRef(CollectLogs, { NoTable }, PipelineDirs)
                  \cup FilesWithoutRef(CollectLogs, { NoTable }) ]
  /\ dirs \in [ TestsOf(infiles) -> PipelineDirs ]
  /\ made = [ x \in Packages |-> {} ]
  /\ metric_files = [ t \in TestsOf(infiles) |-> NoMetrics ]
  /\ statements = {}
  /\ run_jobs = [ x \in Packages |-> <<>> ]
  /\ pc = "collect"
  /\ done = 0
  /\ outf = <<>>
  /\ track = <<>>
  /\ logfiles = <<>>
  /\ job_finished = TRUE
  /\ regex_exist = <<>>
  /\ regex_linecount = <<>>
  /\ regex_md5 = <<>>
  /\ cmp_data = NoTable
  /\ ref_data = NoTable
  /\ result = Reconcile(NoTable, NoTable, <<>>, <<>>, <<>>, TRUE)
  /\ CleanIdle

\* what a task that runs before the collector leaves alone
RunFrame ==
  UNCHANGED << PARAMS, fs, dirs, metric_files, statements, infiles, done,
               outf, track, logfiles, job_finished, regex_exist,
               regex_linecount, regex_md5, cmp_data, ref_data, result,
               cleaner >>

\* setupPrerequisites: one job per name in prerequisites, download and
\* unpack
setupPrerequisites ==
  /\ pc = "collect"
  /\ \E x \in TestsOf(Prerequisites) :
       /\ "tgz" \notin made[x]
       /\ made' = [made EXCEPT ![x] = @ \cup { "tgz" }]
  /\ UNCHANGED << pc, run_jobs >>
  /\ RunFrame

\* setupTests: one job per test, download and unpack
setupTests ==
  /\ pc = "collect"
  /\ \E x \in TESTS :
       /\ "tgz" \notin made[x]
       /\ made' = [made EXCEPT ![x] = @ \cup { "tgz" }]
  /\ UNCHANGED << pc, run_jobs >>
  /\ RunFrame

\* run_tests: one job per test that is no prerequisite, after both setup
\* tasks; the job calls run_test
run_tests ==
  /\ pc = "collect"
  /\ \A y \in Packages : "tgz" \in made[y]
  /\ \E x \in RunTests :
       LET r == run_test(pipeline_targets(x))
       IN /\ "log" \notin made[x]
          /\ run_jobs' = [run_jobs EXCEPT ![x] = Append(@, r.ran)]
          /\ IF r.raised
             THEN pc' = "raised" /\ made' = made
             ELSE pc' = pc /\ made' = [made EXCEPT ![x] = @ \cup { "log" }]
  /\ RunFrame

\* run_reports: one job per log of run_tests
run_reports ==
  /\ pc = "collect"
  /\ \E x \in RunTests :
       /\ "log" \in made[x]
       /\ "report" \notin made[x]
       /\ made' = [made EXCEPT ![x] = @ \cup { "report" }]
  /\ UNCHANGED << pc, run_jobs >>
  /\ RunFrame

\* what a task of the collector leaves alone
CollectFrame ==
  UNCHANGED << PARAMS, fs, pc, dirs, run_jobs, infiles, done, outf, track,
               logfiles,
               job_finished, regex_exist, regex_linecount, regex_md5,
               cmp_data, ref_data, result, cleaner >>

\* variant: the checksums are asked for with the metric of the line counts
buildCheckSumsCountsLines ==
  /\ pc = "collect"
  /\ \E t \in TestsOf(infiles) :
       LET r == compute_file_metrics(t, dirs[t], "wc -l",
                                     ListOf(PARAMS[t].regex_md5))
       IN /\ "log" \in made[t]
          /\ \A u \in TestsOf(infiles) : "report" \in made[u]
          /\ "md5" \notin made[t]
          /\ metric_files' = [metric_files EXCEPT ![t].md5 = r.outfile]
          /\ statements' = statements \cup r.statements
          /\ made' = [made EXCEPT ![t] = @ \cup { "md5" }]
  /\ CollectFrame

buildCheckSums ==
  /\ pc = "collect"
  /\ \E t \in TestsOf(infiles) :
       LET r == compute_file_metrics(t, dirs[t], "md5sum",
                                     ListOf(PARAMS[t].regex_md5))
       IN /\ "log" \in made[t]
          /\ \A u \in TestsOf(infiles) : "report" \in made[u]
          /\ "md5" \notin made[t]
          /\ metric_files' = [metric_files EXCEPT ![t].md5 = r.outfile]
          /\ statements' = statements \cup r.statements
          /\ made' = [made EXCEPT ![t] = @ \cup { "md5" }]
  /\ CollectFrame

\* variant: the line counts do not wait for the run of the test
buildLineCountsBeforeRun ==
  /\ pc = "collect"
  /\ \E t \in TestsOf(infiles) :
       LET r == compute_file_metrics(t, dirs[t], "wc -l",
                                     ListOf(PARAMS[t].regex_linecount))
       IN /\ "lines" \notin made[t]
          /\ metric_files' = [metric_files EXCEPT ![t].lines = r.outfile]
          /\ statements' = statements \cup r.statements
          /\ made' = [made EXCEPT ![t] = @ \cup { "lines" }]
  /\ CollectFrame

buildLineCounts ==
  /\ pc = "collect"
  /\ \E t \in TestsOf(infiles) :
       LET r == compute_file_metrics(t, dirs[t], "wc -l",
                                     ListOf(PARAMS[t].regex_linecount))
       IN /\ "log" \in made[t]
          /\ "lines" \notin made[t]
          /\ metric_files' = [metric_files EXCEPT ![t].lines = r.outfile]
          /\ statements' = statements \cup r.statements
          /\ made' = [made EXCEPT ![t] = @ \cup { "lines" }]
  /\ CollectFrame

checkFileExistence ==
  /\ pc = "collect"
  /\ \E t \in TestsOf(infiles) :
       LET r == compute_file_metrics(t, dirs[t], "file",
                                     ListOf(PARAMS[t].regex_exist))
       IN /\ "log" \in made[t]
          /\ "exist" \notin made[t]
          /\ metric_files' = [metric_files EXCEPT ![t].exist = r.outfile]
          /\ statements' = statements \cup r.statements
          /\ made' = [made EXCEPT ![t] = @ \cup { "exist" }]
  /\ CollectFrame

\* variant: the merged table is written over the reference as well
mergeFileStatisticsOverReference ==
  /\ pc = "collect"
  /\ \E t \in TestsOf(infiles) :
       /\ MetricFiles \subseteq made[t]
       /\ "stats" \notin made[t]
       /\ fs' = [fs EXCEPT ![t].stats = MergeTestingOutput(metric_files[t]),
                           ![t].ref = MergeTestingOutput(metric_files[t]),
                           ![t].has_ref = TRUE]
       /\ made' = [made EXCEPT ![t] = @ \cup { "stats" }]
  /\ UNCHANGED << PARAMS, pc, dirs, metric_files, statements, run_jobs,
                  infiles, done,
                  outf, track, logfiles, job_finished, regex_exist,
                  regex_linecount, regex_md5, cmp_data, ref_data, result,
                  cleaner >>

\* mergeFileStatistics: <track>.stats from the three files of metrics
mergeFileStatistics ==
  /\ pc = "collect"
  /\ \E t \in TestsOf(infiles) :
       /\ MetricFiles \subseteq made[t]
       /\ "stats" \notin made[t]
       /\ fs' = [fs EXCEPT ![t].stats = MergeTestingOutput(metric_files[t])]
       /\ made' = [made EXCEPT ![t] = @ \cup { "stats" }]
  /\ UNCHANGED << PARAMS, pc, dirs, metric_files, statements, run_jobs,
                  infiles, done,
                  outf, track, logfiles, job_finished, regex_exist,
                  regex_linecount, regex_md5, cmp_data, ref_data, result,
                  cleaner >>

\* compareCheckSums starts once every <track>.stats is made: outf is
\* opened and the header written
compareCheckSums ==
  /\ pc = "collect"
  /\ \A t \in TestsOf(infiles) : "stats" \in made[t]
  /\ outf' = << Header >>
  /\ pc' = "loop"
  /\ UNCHANGED << PARAMS, fs, dirs, made, metric_files, statements, run_jobs,
                  infiles,
                  done, track, logfiles, job_finished, regex_exist,
                  regex_linecount, regex_md5, cmp_data, ref_data, result,
                  cleaner >>

NextCollect ==
  \/ buildCheckSums
  \/ buildLineCounts
  \/ checkFileExistence
  \/ mergeFileStatistics
  \/ compareCheckSums
  \/ CompareTest
  \/ NoReference

SpecFind == FindInit /\ [][NextCollect]_vars

\* the tasks run on a file whose contents are modelled
ContentInit ==
  CollectInitWith(ContentParams,
                  FilesWithRef(CollectLogs, { NoTable }, ContentRefTables)
                    \cup FilesWithoutRef(CollectLogs, { NoTable }),
                  ContentDirs)

SpecContent == ContentInit /\ [][NextCollect]_vars

\* the whole pipeline up to md5_compare.tsv
NextPipeline ==
  \/ setupPrerequisites
  \/ setupTests
  \/ run_tests
  \/ run_reports
  \/ buildCheckSums
  \/ buildLineCounts
  \/ checkFileExistence
  \/ mergeFileStatistics
  \/ compareCheckSums
  \/ CompareTest
  \/ NoReference

SpecPipeline == PipelineInit /\ [][NextPipeline]_vars

SpecCollect == CollectInit /\ [][NextCollect]_vars

\* ------------------------------------------------------------------------
\* cgat_clean.py
\* ------------------------------------------------------------------------

\* the variables of pipeline_testing
pipeline ==
  << PARAMS, fs, pc, dirs, made, metric_files, statements, run_jobs,
     infiles, done, outf, track, logfiles, job_finished, regex_exist,
     regex_linecount, regex_md5, cmp_data, ref_data, result >>

\* after the command line is parsed
CleanInit ==
  /\ filenames \in CommandLines
  /\ disk \in [ CleanNames -> DiskFiles ]
  /\ c = NoCounts
  /\ args \in [ dry_run : BOOLEAN ]
  /\ PARAMS = <<>>
  /\ fs = <<>>
  /\ pc = "clean"
  /\ dirs = <<>>
  /\ made = <<>>
  /\ metric_files = <<>>
  /\ statements = {}
  /\ run_jobs = <<>>
  /\ infiles = <<>>
  /\ done = 0
  /\ outf = <<>>
  /\ track = <<>>
  /\ logfiles = <<>>
  /\ job_finished = TRUE
  /\ regex_exist = <<>>
  /\ regex_linecount = <<>>
  /\ regex_md5 = <<>>
  /\ cmp_data = NoTable
  /\ ref_data = NoTable
  /\ result = Reconcile(NoTable, NoTable, <<>>, <<>>, <<>>, TRUE)

\* variant: the file is unlinked in a dry run as well
mainUnlinksInDryRun ==
  /\ pc = "clean"
  /\ c.checked < Len(filenames)
  /\ LET filename == filenames[c.checked + 1]
         f == disk[filename]
     IN IF f.log # "absent" /\ f.log = "complete"
        THEN /\ c' = [c EXCEPT !.checked = @ + 1, !.complete = @ + 1]
             /\ disk' = disk
        ELSE IF f.complete
        THEN /\ c' = [c EXCEPT !.checked = @ + 1, !.complete = @ + 1]
             /\ disk' = disk
        ELSE /\ c' = [c EXCEPT !.checked = @ + 1, !.incomplete = @ + 1,
                               !.deleted = @ + 1]
             /\ disk' = [disk EXCEPT ![filename].present = FALSE]
  /\ UNCHANGED << filenames, args, pipeline >>

\* main: one iteration of the loop over the file names
main ==
  /\ pc = "clean"
  /\ c.checked < Len(filenames)
  /\ LET filename == filenames[c.checked + 1]
         f == disk[filename]
     IN IF f.log # "absent" /\ f.log = "complete"
        THEN /\ c' = [c EXCEPT !.checked = @ + 1, !.complete = @ + 1]
             /\ disk' = disk
        ELSE IF f.complete
        THEN /\ c' = [c EXCEPT !.checked = @ + 1, !.complete = @ + 1]
             /\ disk' = disk
        ELSE IF args.dry_run
        THEN /\ c' = [c EXCEPT !.checked = @ + 1, !.incomplete = @ + 1]
             /\ disk' = disk
        ELSE /\ c' = [c EXCEPT !.checked = @ + 1, !.incomplete = @ + 1,
                               !.deleted = @ + 1]
             /\ disk' = [disk EXCEPT ![filename].present = FALSE]
  /\ UNCHANGED << filenames, args, pipeline >>

NextClean == main

SpecClean == CleanInit /\ [][NextClean]_vars

\* a test has been reconciled and its row written
Compared == done > 0

\* ------------------------------------------------------------------------
\* Vocabulary of the properties
\* ------------------------------------------------------------------------

\* the policy (a list of fragments, <<>> when not configured) matches x
Matches(policy, x) == policy # <<>> /\ ReSearch(policy, x)

\* the first policy that x matches in the order existence, linecount,
\* checksum
GradedExist(x) == Matches(regex_exist, x)

GradedLines(x) == ~Matches(regex_exist, x) /\ Matches(regex_linecount, x)

GradedMd5(x) ==
  /\ ~Matches(regex_exist, x)
  /\ ~Matches(regex_linecount, x)
  /\ Matches(regex_md5, x)

\* shared files that match none of the three policies
Unclassified ==
  { x \in result.shared_files :
      ~GradedExist(x) /\ ~GradedLines(x) /\ ~GradedMd5(x) }

\* both tables hold a line count (a checksum) for x, and the same one
EqualLineCounts(x) ==
  /\ cmp_data[x].nlines # NaNLines
  /\ ref_data[x].nlines # NaNLines
  /\ cmp_data[x].nlines = ref_data[x].nlines

EqualChecksums(x) ==
  /\ cmp_data[x].md5 # NaNMd5
  /\ ref_data[x].md5 # NaNMd5
  /\ cmp_data[x].md5 = ref_data[x].md5

LineSets == result.same_lines \cup result.different_lines

Md5Sets == result.same_md5 \cup result.different_md5

Restrict(t, S) == [ x \in S |-> t[x] ]

\* the status of the same test with other tables
StatusWith(cmp, ref) ==
  Reconcile(cmp, ref, regex_exist, regex_linecount, regex_md5,
            job_finished).status

\* ------------------------------------------------------------------------
\* Properties
\* ------------------------------------------------------------------------

\* C1: the status of a reconciled test is OK if and only if job_finished
\* holds and missing, extra, different_md5 and different_lines are all
\* empty; in every other case it is FAIL.
C1_StatusOkIffClean ==
  Compared =>
    /\ result.status \in {"OK", "FAIL"}
    /\ result.status = "OK" <=>
         /\ job_finished
         /\ result.missing = {}
         /\ result.extra = {}
         /\ result.different_md5 = {}
         /\ result.different_lines = {}

C1_Witness ==
  /\ Compared
  /\ result.status = "OK"
  /\ job_finished
  /\ result.same_md5 # {}
  /\ logfiles # <<>>

\* C2: shared is the intersection of the keys of the current and of the
\* reference table, missing the keys of the reference only, extra the keys
\* of the current table only; the three are pairwise disjoint and cover the
\* union of the keys.
C2_SharedMissingExtra ==
  Compared =>
    LET cur == DOMAIN cmp_data
        ref == DOMAIN ref_data
    IN /\ result.shared_files = cur \cap ref
       /\ result.missing = ref \ cur
       /\ result.extra = cur \ ref
       /\ result.shared_files \cap result.missing = {}
       /\ result.shared_files \cap result.extra = {}
       /\ result.missing \cap result.extra = {}
       /\ result.shared_files \cup result.missing \cup result.extra
            = cur \cup ref

C2_Witness ==
  /\ Compared
  /\ result.shared_files # {}
  /\ result.missing # {}
  /\ result.extra # {}

\* C3: the shared files are exactly the union of same_exist, same_lines,
\* different_lines, same_md5, different_md5 and the unclassified files, and
\* these six sets are pairwise disjoint.
C3_PartitionTotality ==
  Compared =>
    LET parts == << result.same_exist, result.same_lines,
                    result.different_lines, result.same_md5,
                    result.different_md5, Unclassified >>
    IN /\ result.shared_files = UNION { parts[i] : i \in 1..6 }
       /\ \A i \in 1..6 : \A j \in 1..6 :
            i < j => parts[i] \cap parts[j] = {}

C3_Witness ==
  /\ Compared
  /\ Unclassified # {}
  /\ result.different_lines # {}
  /\ regex_md5 # <<>>
  /\ \E x \in result.different_lines : Matches(regex_md5, x)

\* C4: the policies apply in the order existence, linecount, checksum and a
\* shared file is graded only under the first policy it matches: a file
\* matching the existence policy is in no linecount or checksum set, and a
\* file matching the linecount policy is in no checksum set.
C4_Precedence ==
  Compared =>
    \A x \in result.shared_files :
      /\ GradedExist(x) =>
           x \in result.same_exist /\ x \notin LineSets /\ x \notin Md5Sets
      /\ GradedLines(x) =>
           x \in LineSets /\ x \notin result.same_exist /\ x \notin Md5Sets
      /\ GradedMd5(x) =>
           x \in Md5Sets /\ x \notin result.same_exist /\ x \notin LineSets

C4_Witness ==
  /\ Compared
  /\ \E x \in result.same_exist :
       Matches(regex_md5, x) /\ cmp_data[x].md5 # ref_data[x].md5
  /\ \E y \in LineSets : Matches(regex_md5, y)

\* C5: a shared file that matches the existence policy is in same_exist
\* whatever checksums and line counts the two tables hold for it, and is
\* neither in different_md5 nor in different_lines.
C5_ExistenceUnconditional ==
  Compared =>
    \A x \in result.shared_files :
      Matches(regex_exist, x) =>
        /\ x \in result.same_exist
        /\ x \notin result.different_md5
        /\ x \notin result.different_lines

C5_Witness ==
  /\ Compared
  /\ \E x \in result.same_exist :
       /\ cmp_data[x].md5 # ref_data[x].md5
       /\ Matches(regex_md5, x)
  /\ \E y \in result.same_exist :
       /\ cmp_data[y].nlines # ref_data[y].nlines
       /\ Matches(regex_linecount, y)

\* C6: a shared file that matches the linecount policy and not the existence
\* policy is in same_lines when both tables hold the same line count for it
\* and in different_lines otherwise, never in both and never in neither.
C6_LinecountGrading ==
  Compared =>
    \A x \in result.shared_files :
      GradedLines(x) =>
        /\ x \in result.same_lines <=> EqualLineCounts(x)
        /\ x \in result.different_lines <=> ~EqualLineCounts(x)

C6_Witness ==
  /\ Compared
  /\ \E x \in result.same_lines : cmp_data[x].md5 # ref_data[x].md5
  /\ \E y \in result.different_lines : cmp_data[y].nlines # NaNLines

\* C7: a shared file that matches the checksum policy and neither the
\* existence nor the linecount policy is in same_md5 when both tables hold
\* the same checksum for it and in different_md5 otherwise, never in both
\* and never in neither.
C7_ChecksumGrading ==
  Compared =>
    \A x \in result.shared_files :
      GradedMd5(x) =>
        /\ x \in result.same_md5 <=> EqualChecksums(x)
        /\ x \in result.different_md5 <=> ~EqualChecksums(x)

C7_Witness ==
  /\ Compared
  /\ \E x \in result.same_md5 : cmp_data[x].nlines # ref_data[x].nlines
  /\ \E y \in result.different_md5 : cmp_data[y].md5 # NaNMd5

\* C8: the unclassified shared files have no influence on the status: the
\* status of every reconciliation is the status of the reconciliation of
\* the same tables without their unclassified shared files. Two
\* reconciliations that differ only in the rows or in the number of
\* unclassified shared files are equal without them, so their statuses are
\* the same.
C8_UnclassifiedIgnored ==
  Compared =>
    StatusWith(Restrict(cmp_data, (DOMAIN cmp_data) \ Unclassified),
               Restrict(ref_data, (DOMAIN ref_data) \ Unclassified))
      = result.status

C8_Witness ==
  /\ Compared
  /\ result.status = "OK"
  /\ regex_md5 # <<>>
  /\ result.same_md5 # {}
  /\ \E x \in Unclassified : cmp_data[x].md5 # ref_data[x].md5

\* C9: reconciling a table with itself gives empty missing, extra,
\* different_md5 and different_lines, and every shared file that matches a
\* policy is in one of same_exist, same_lines, same_md5, whichever metrics
\* the rows hold.
C9_Idempotence ==
  (Compared /\ cmp_data = ref_data) =>
    /\ result.missing = {}
    /\ result.extra = {}
    /\ result.different_md5 = {}
    /\ result.different_lines = {}
    /\ \A x \in result.shared_files :
         x \notin Unclassified =>
           x \in result.same_exist \cup result.same_lines
                   \cup result.same_md5

\* the current table is the reference table but for the checksum of p
SingleChecksumChange(p) ==
  /\ DOMAIN cmp_data = DOMAIN ref_data
  /\ p \in DOMAIN ref_data
  /\ cmp_data[p].md5 # ref_data[p].md5
  /\ cmp_data[p].nlines = ref_data[p].nlines
  /\ \A q \in (DOMAIN ref_data) \ {p} : cmp_data[q] = ref_data[q]

\* the reference table reconciled with itself is OK
IdenticalPairOK == job_finished /\ StatusWith(ref_data, ref_data) = "OK"

\* C10 as stated: whichever file has its checksum changed in a current table
\* otherwise identical to the reference (status OK), the status becomes
\* FAIL and different_md5 is exactly that file.
C10_AnyChecksumChangeFails ==
  Compared =>
    \A p \in Paths :
      (SingleChecksumChange(p) /\ IdenticalPairOK) =>
        result.status = "FAIL" /\ result.different_md5 = {p}

\* C10: when the changed file is graded under the checksum policy (it
\* matches the checksum policy and neither the existence nor the linecount
\* policy), the status becomes FAIL and different_md5 is exactly that file.
C10_GradedChecksumChangeFails ==
  Compared =>
    \A p \in Paths :
      (SingleChecksumChange(p) /\ IdenticalPairOK /\ GradedMd5(p)) =>
        result.status = "FAIL" /\ result.different_md5 = {p}

C10_Witness ==
  /\ Compared
  /\ Cardinality(DOMAIN ref_data) = 2
  /\ \E p \in Paths :
       SingleChecksumChange(p) /\ IdenticalPairOK /\ GradedMd5(p)

\* ------------------------------------------------------------------------
\* Properties of the loop over the tests
\* ------------------------------------------------------------------------

\* the lines of outf that follow the header
RowIndexes == 2..Len(outf)

\* the test that line j of outf is about
RowTrack(j) == outf[j][1]

\* the line that the files and options of test t alone determine
OwnRow(t) ==
  LET f == fs[t]
      finished == JobFinished(f.logs)
  IN VerdictRow(t, finished, f.stats, f.ref,
                Reconcile(f.stats, f.ref, PARAMS[t].regex_exist,
                          PARAMS[t].regex_linecount, PARAMS[t].regex_md5,
                          finished))

\* C11: when the test has no log file at all, or one of its log files is
\* not complete, job_finished is false and the status is FAIL, also when
\* all files agree with the reference.
C11_NoLogOrIncompleteFails ==
  Compared =>
    ((logfiles = <<>> \/ \E i \in 1..Len(logfiles) : ~logfiles[i]) =>
       ~job_finished /\ result.status = "FAIL")

\* C12: a test without reference file stops the loop with an error and has
\* no line in outf: every line is about a test with reference file, the
\* loop never gets past a test without one, and the error is raised for
\* such a test only.
C12_NoReferenceRaises ==
  /\ \A j \in RowIndexes : fs[RowTrack(j)].has_ref
  /\ \A i \in 1..done : fs[infiles[i]].has_ref
  /\ pc = "raised" => ~fs[track].has_ref /\ track = infiles[done + 1]
  /\ pc = "closed" => \A t \in TestsOf(infiles) : fs[t].has_ref

C12_Witness ==
  /\ pc = "raised"
  /\ ~fs[track].has_ref
  /\ Len(outf) = 2
  /\ outf[2][2] = "OK"

\* C13: when the invocation has ended, with or without error, every test
\* with a reference file has its line in outf, wherever a test without
\* reference file stands in the list.
C13_SiblingsStillReconciled ==
  pc # "loop" =>
    \A t \in TestsOf(infiles) :
      fs[t].has_ref => \E j \in RowIndexes : RowTrack(j) = t

\* C14: the line of a test is determined by the tables, the reference, the
\* options and the logs of that test alone, whatever the other tests of the
\* invocation are.
C14_RowOfOwnInputs ==
  \A j \in RowIndexes : outf[j] = OwnRow(RowTrack(j))

\* C17: the line written for the test mirrors the result: the four lists
\* are missing, extra, different_md5 and different_lines, each count is the
\* size of its set, "different" is the sum of the two different counts and
\* "same" the sum of the three same counts.
C17_RowMirrorsResult ==
  Compared =>
    LET row == outf[Len(outf)]
    IN /\ row[1] = track
       /\ row[2] = result.status
       /\ row[3] = job_finished
       /\ row[6] = Cardinality(result.missing)
       /\ row[7] = Cardinality(result.extra)
       /\ row[8] = Cardinality(result.different_md5)
                     + Cardinality(result.different_lines)
       /\ row[9] = Cardinality(result.different_md5)
       /\ row[10] = Cardinality(result.different_lines)
       /\ row[11] = Cardinality(result.same_md5)
                      + Cardinality(result.same_lines)
                      + Cardinality(result.same_exist)
       /\ row[12] = Cardinality(result.same_md5)
       /\ row[13] = Cardinality(result.same_lines)
       /\ row[14] = Cardinality(result.same_exist)
       /\ row[15] = result.missing
       /\ row[16] = result.extra
       /\ row[17] = result.different_md5
       /\ row[18] = result.different_lines

C17_Witness ==
  /\ Compared
  /\ result.missing # {}
  /\ result.extra # {}
  /\ result.different_lines # {}

\* C18: when compareCheckSums completes, outf is the header followed by one
\* line per test, in the order of the tests; and a line once written is
\* never changed.
C18_OneRowPerTest ==
  /\ [](pc = "closed" =>
          /\ Len(outf) = Len(infiles) + 1
          /\ outf[1] = Header
          /\ \A i \in 1..Len(infiles) : RowTrack(i + 1) = infiles[i])
  /\ [][/\ Len(outf') >= Len(outf)
        /\ \A j \in 1..Len(outf) : outf'[j] = outf[j]]_vars

C18_Witness ==
  /\ pc = "closed"
  /\ Len(outf) = 3
  /\ outf[2][2] # outf[3][2]

\* ------------------------------------------------------------------------
\* Properties of the scenario a.tsv.gz, b.bam, c.bed.gz
\* ------------------------------------------------------------------------

\* the tables of the scenario: the reference lists a.tsv.gz and b.bam, the
\* current run lists c.bed.gz as well; the checksum of a.tsv.gz is the
\* accepted one, that of b.bam is another one
ScenarioTablesRead ==
  /\ DOMAIN ref_data = { PathTsv, PathBam }
  /\ DOMAIN cmp_data = { PathTsv, PathBam, PathBed }
  /\ cmp_data[PathTsv].md5 # NaNMd5
  /\ cmp_data[PathTsv].md5 = ref_data[PathTsv].md5
  /\ cmp_data[PathBam].md5 # NaNMd5
  /\ ref_data[PathBam].md5 # NaNMd5
  /\ cmp_data[PathBam].md5 # ref_data[PathBam].md5
  /\ cmp_data[PathBed].md5 # NaNMd5

\* the checksum list covers .tsv.gz, .bam and .bed.gz; no other list is set
ScenarioPolicy ==
  /\ regex_exist = <<>>
  /\ regex_linecount = <<>>
  /\ regex_md5 = << SuffixTsv, SuffixBam, SuffixBed >>

\* C15: in the scenario (reference a.tsv.gz: X, b.bam: Y; current
\* a.tsv.gz: X, b.bam: Z, c.bed.gz: W; checksum list .tsv.gz, .bam,
\* .bed.gz; job finished) nothing is missing, c.bed.gz is extra, b.bam has
\* a different checksum, a.tsv.gz the same checksum, and the status is FAIL.
C15_Scenario ==
  Compared /\ ScenarioTablesRead /\ ScenarioPolicy /\ job_finished =>
    /\ result.missing = {}
    /\ result.extra = { PathBed }
    /\ result.different_md5 = { PathBam }
    /\ result.same_md5 = { PathTsv }
    /\ result.status = "FAIL"

\* the scenario with the checksums X, Y, Z, W has been reconciled
C15_Witness ==
  /\ Compared /\ ScenarioTablesRead /\ ScenarioPolicy /\ job_finished
  /\ ref_data[PathTsv].md5 = "X" /\ ref_data[PathBam].md5 = "Y"
  /\ cmp_data[PathBam].md5 = "Z" /\ cmp_data[PathBed].md5 = "W"
  /\ outf[2][2] = "FAIL"

\* the result of the tables read under the options p
ResultUnder(p) ==
  Reconcile(cmp_data, ref_data, p.regex_exist, p.regex_linecount,
            p.regex_md5, job_finished)

\* C16: extra and missing do not depend on the suffix lists, and a file
\* that only the current table lists is in extra and makes the status FAIL
\* whichever list its name matches, the existence list included.
C16_ExtraWhateverPolicy ==
  Compared =>
    /\ \A p \in ScenarioParams :
         /\ ResultUnder(p).extra = result.extra
         /\ ResultUnder(p).missing = result.missing
    /\ \A x \in (DOMAIN cmp_data) \ (DOMAIN ref_data) :
         x \in result.extra /\ result.status = "FAIL"

\* c.bed.gz, listed for its existence only and under the existence list, is
\* the one reason of the FAIL
C16_Witness ==
  /\ Compared /\ job_finished
  /\ (DOMAIN cmp_data) \ (DOMAIN ref_data) = { PathBed }
  /\ GradedExist(PathBed)
  /\ cmp_data[PathBed].md5 = NaNMd5
  /\ result.missing = {}
  /\ result.different_md5 = {}
  /\ result.different_lines = {}
  /\ result.extra = { PathBed }
  /\ result.status = "FAIL"

\* ------------------------------------------------------------------------
\* Properties of the tasks that collect the metrics
\* ------------------------------------------------------------------------

\* the metric and the suffix list of a file of metrics
MetricOf(m) ==
  IF m = "md5" THEN "md5sum" ELSE IF m = "lines" THEN "wc -l" ELSE "file"

SuffixesOf(t, m) ==
  IF m = "md5" THEN PARAMS[t].regex_md5
  ELSE IF m = "lines" THEN PARAMS[t].regex_linecount
  ELSE PARAMS[t].regex_exist

\* C19: no step of the collector, of the merge or of the comparison
\* changes the reference file of a test or makes or removes it, and the
\* reference table is read in the iteration of its test and at no other
\* step.
C19_ReferenceReadOnly ==
  [][ /\ \A t \in TestsOf(infiles) :
           fs'[t].ref = fs[t].ref /\ fs'[t].has_ref = fs[t].has_ref
      /\ done' # done =>
           done' = done + 1 /\ ref_data' = fs[infiles[done']].ref
      /\ done' = done => ref_data' = ref_data ]_vars

\* the metrics were collected and merged and the test compared with a
\* reference that differs from the merged table
C19_Witness ==
  /\ pc = "closed"
  /\ statements # {}
  /\ fs[track].ref # NoTable
  /\ DOMAIN cmp_data # DOMAIN ref_data
  /\ DOMAIN ref_data = DOMAIN fs[track].ref

\* C20: for an empty suffix list, and for None, compute_file_metrics makes
\* an empty file of metrics and runs no find statement.
C20_NoSuffixesNoScan ==
  /\ \A t \in TestsOf(infiles) : \A m \in made[t] \cap MetricFiles :
       SuffixesOf(t, m) = <<>> =>
         /\ metric_files[t][m] = NoTable
         /\ [track |-> t, metric |-> MetricOf(m)] \notin statements
  /\ \A t \in TestsOf(infiles) : \A m \in MetricFiles :
       compute_file_metrics(t, dirs[t], MetricOf(m), None)
         = [ outfile |-> NoTable, statements |-> {} ]

\* the checksums of a test with files were asked for with an empty list
\* while another metric of the same test was collected with find
C20_Witness ==
  \E t \in TestsOf(infiles) :
    /\ "md5" \in made[t]
    /\ PARAMS[t].regex_md5 = <<>>
    /\ metric_files[t].md5 = NoTable
    /\ metric_files[t].lines # NoTable
    /\ statements = { [track |-> t, metric |-> "wc -l"] }

\* ------------------------------------------------------------------------
\* Properties of the find statement
\* ------------------------------------------------------------------------

\* positions of the "/" of a file name
Slashes(x) == { i \in 1..Len(x) : x[i] = "/" }

\* the name of the file (what follows the last "/") begins with "_"
NameReserved(x) ==
  \E i \in Slashes(x) :
    /\ \A j \in Slashes(x) : j <= i
    /\ i < Len(x)
    /\ x[i + 1] = "_"

\* the file is below a directory named report
BeneathReport(x) ==
  \E i, j \in Slashes(x) :
    i < j /\ SubSeq(x, i + 1, j - 1) = << "r", "e", "p", "o", "r", "t" >>

\* the file of metrics m of test t was made from a list with a suffix
Collected(t, m) == m \in made[t] /\ SuffixesOf(t, m) # <<>>

\* C21: no row is written for a file whose name begins with "_" or that is
\* below a directory report, and every other file that ends with a
\* requested suffix has its row.
C21_OnlyReservedExcluded ==
  \A t \in TestsOf(infiles) : \A m \in MetricFiles :
    Collected(t, m) =>
      /\ \A x \in DOMAIN metric_files[t][m] :
           ~NameReserved(x) /\ ~BeneathReport(x)
      /\ \A x \in DOMAIN dirs[t] :
           ( /\ ~NameReserved(x)
             /\ ~BeneathReport(x)
             /\ \E i \in 1..Len(SuffixesOf(t, m)) :
                  EndsWith(SuffixesOf(t, m)[i], x) )
           => x \in DOMAIN metric_files[t][m]

\* the part of C21 that the find statement keeps: no row for a reserved file
ReservedNeverListed ==
  \A t \in TestsOf(infiles) : \A m \in MetricFiles :
    \A x \in DOMAIN metric_files[t][m] :
      ~NameReserved(x) /\ ~BeneathReport(x)

\* x ends with the characters of the fragment, taken literally
EndsWithLiteral(suffix, x) ==
  /\ Len(suffix) <= Len(x)
  /\ SubSeq(x, Len(x) - Len(suffix) + 1, Len(x)) = suffix

\* C22: for a list with a suffix, a file that the find statement does not
\* exclude has a row if and only if its name ends with one of the fragments
\* of the list (a table has one row per file name).
C22_RowIffSuffix ==
  \A t \in TestsOf(infiles) : \A m \in MetricFiles :
    Collected(t, m) =>
      \A x \in DOMAIN dirs[t] :
        ~Excluded(x) =>
          ( x \in DOMAIN metric_files[t][m]
              <=> \E i \in 1..Len(SuffixesOf(t, m)) :
                    EndsWithLiteral(SuffixesOf(t, m)[i], x) )

\* ------------------------------------------------------------------------
\* Properties of the checksum
\* ------------------------------------------------------------------------

\* the file x of the test directory and the file the reference was made
\* from differ in lines that begin with "#" only
DifferInCommentsOnly(x) ==
  /\ x \in DOMAIN dirs[track]
  /\ x \in DOMAIN ref_data
  /\ StripComments(dirs[track][x].content)
       = StripComments(ref_data[x].content)

\* C23: a file of the current run and the file of the reference that
\* differ only in lines beginning with "#" have the same checksum, and the
\* file is not in different_md5.
C23_CommentInsensitive ==
  Compared =>
    \A x \in result.shared_files :
      DifferInCommentsOnly(x) =>
        /\ cmp_data[x].md5 = ref_data[x].md5
        /\ x \notin result.different_md5

\* a file with a data line whose comments changed is graded by its
\* checksum and found the same
C23_Witness ==
  /\ Compared
  /\ \E x \in result.same_md5 :
       /\ DifferInCommentsOnly(x)
       /\ dirs[track][x].content # ref_data[x].content
       /\ StripComments(ref_data[x].content) # <<>>

\* ------------------------------------------------------------------------
\* Properties of the tasks that run the pipelines
\* ------------------------------------------------------------------------

\* C24: a job of run_tests gives P.run one make statement per configured
\* target, in the configured order; without the option target that is the
\* one statement make full.
C24_EveryTargetRun ==
  \A x \in DOMAIN run_jobs :
    \A j \in 1..Len(run_jobs[x]) : run_jobs[x][j] = pipeline_targets(x)

Checked == { filenames[i] : i \in 1..c.checked }

\* <file>.log exists and ends in the marker, or the file ends in it
DeemedComplete(x) == disk[x].log = "complete" \/ disk[x].complete

\* C26: a file is kept if and only if it is deemed complete or the run is
\* a dry run; the files not yet dealt with are there; checked is complete
\* plus incomplete, complete counts the files deemed complete, and deleted
\* is incomplete, or 0 in a dry run, and counts the files removed.
C26_CleanRemovesIncomplete ==
  /\ \A x \in Checked :
       disk[x].present <=> (DeemedComplete(x) \/ args.dry_run)
  /\ \A x \in (DOMAIN disk) \ Checked : disk[x].present
  /\ c.checked = c.complete + c.incomplete
  /\ c.complete = Cardinality({ x \in Checked : DeemedComplete(x) })
  /\ c.deleted = (IF args.dry_run THEN 0 ELSE c.incomplete)
  /\ c.deleted = Cardinality({ x \in DOMAIN disk : ~disk[x].present })

\* a dry run over two files has ended: one file is complete although its
\* log is not, the other is incomplete and kept
C26_Witness ==
  /\ args.dry_run
  /\ c.checked = Len(filenames)
  /\ c.complete = 1
  /\ c.incomplete = 1
  /\ \E x \in Checked :
       disk[x].log = "incomplete" /\ disk[x].complete
  /\ \E x \in Checked : ~DeemedComplete(x) /\ disk[x].present

\* ------------------------------------------------------------------------
\* Properties of job_finished
\* ------------------------------------------------------------------------

\* every log file of the test itself is complete
OwnLogsComplete(t) == \A i \in 1..Len(fs[t].logs) : fs[t].logs[i]

\* C27: job_finished of a test is the conjunction of the completeness of
\* the log files of that test, in whatever order they are listed.
C27_ConjunctionOfOwnLogs ==
  Compared => (job_finished <=> OwnLogsComplete(track))

\* the part of C27 that holds: job_finished is the conjunction over the
\* files that glob returns, which include the logs of the test, so an
\* incomplete log of the test makes it false
JobFinishedOnlyIfOwnLogsComplete ==
  Compared =>
    /\ job_finished <=> \A i \in 1..Len(logfiles) : logfiles[i]
    /\ job_finished => OwnLogsComplete(track)

\* ------------------------------------------------------------------------
\* Properties of the order of the tasks
\* ------------------------------------------------------------------------

\* what exists tells which tasks have finished: a file of metrics only
\* after the log of the run, the checksums only after the report, the
\* statistics only after the three files of metrics, the output of the
\* comparison only after the statistics of every test
StagesInOrder ==
  /\ \A t \in TestsOf(infiles) :
       /\ made[t] \cap MetricFiles # {} => "log" \in made[t]
       /\ "md5" \in made[t] => "report" \in made[t]
       /\ "stats" \in made[t] => MetricFiles \subseteq made[t]
  /\ outf # <<>> => \A t \in TestsOf(infiles) : "stats" \in made[t]

\* a step of a later stage leaves the results of the earlier stages alone
NoStepBack ==
  /\ \A x \in DOMAIN made : made[x] \subseteq made'[x]
  /\ \A t \in TestsOf(infiles) :
       /\ made[t] \cap MetricFiles # {} => run_jobs'[t] = run_jobs[t]
       /\ "stats" \in made[t] => metric_files'[t] = metric_files[t]
  /\ outf # <<>> => UNCHANGED << collector, fs >>

\* C28: per test the run finishes before its metrics are collected, the
\* checksums are built after the report, the statistics are merged after
\* the three files of metrics exist, the comparison starts after the
\* statistics of every test are merged, and no later task changes what an
\* earlier one made.
C28_TaskOrder == [] StagesInOrder /\ [][NoStepBack]_vars

\* two tests went through every task up to the end of the comparison
C28_Witness ==
  /\ pc = "closed"
  /\ Len(infiles) = 2
  /\ Len(outf) = 3
  /\ \A t \in TestsOf(infiles) :
       made[t] = RunFiles \cup MetricFiles \cup { "stats" }

\* ------------------------------------------------------------------------
\* Properties that tie the collector to the comparison
\* ------------------------------------------------------------------------

\* x matches one of the three policies of the test under comparison
MatchesSomePolicy(x) ==
  \/ Matches(regex_exist, x)
  \/ Matches(regex_linecount, x)
  \/ Matches(regex_md5, x)

\* C29: the table of a test that the collector made from the three lists of
\* suffixes holds only files that match one of the three policies made from
\* the same lists, so no shared file is left unclassified.
C29_CollectedPathsClassified ==
  Compared =>
    /\ \A x \in DOMAIN cmp_data : MatchesSomePolicy(x)
    /\ Unclassified = {}

\* the comparison read a table with rows that the collector made, and
\* shares a file with the reference
C29_Witness ==
  /\ Compared
  /\ cmp_data = MergeTestingOutput(metric_files[track])
  /\ DOMAIN cmp_data # {}
  /\ result.shared_files # {}

\* x ends with one of the fragments of the list
EndsWithOneOf(suffixes, x) ==
  \E i \in 1..Len(suffixes) : EndsWith(suffixes[i], x)

\* C30: a shared file that the comparison grades under the linecount policy
\* has a line count in the file of line counts that the collector made from
\* the same list, and its name ends with a fragment of that list; likewise
\* for the checksum policy and the file of checksums.
C30_GradedAsCollected ==
  Compared =>
    /\ \A x \in LineSets :
         /\ x \in DOMAIN metric_files[track].lines
         /\ EndsWithOneOf(regex_linecount, x)
    /\ \A x \in Md5Sets :
         /\ x \in DOMAIN metric_files[track].md5
         /\ EndsWithOneOf(regex_md5, x)

\* the part of C30 that holds: a file graded under the checksum policy was
\* given a checksum by the collector whenever it ends with a fragment of
\* the list, and one graded under the linecount policy a line count
GradedAndEndingIsCollected ==
  Compared =>
    /\ \A x \in LineSets :
         EndsWithOneOf(regex_linecount, x)
           => x \in DOMAIN metric_files[track].lines
    /\ \A x \in Md5Sets :
         EndsWithOneOf(regex_md5, x)
           => x \in DOMAIN metric_files[track].md5

====
